---- MODULE Spec2Model ----
(***************************************************************************)
(* Model of the multi-provider speech synthesis orchestrator,              *)
(* app/tts copy.py: synthesize(text, lang, provider, voice_id).            *)
(*                                                                         *)
(* One call of synthesize is one behaviour.  Init draws the arguments and  *)
(* the environment (credential configured or not); every backend call,     *)
(* import, temp-file operation and the beep generation is a step whose     *)
(* outcome (value, empty value, exception) is chosen nondeterministically. *)
(* Python strings are sequences of one-character strings, so that strip,   *)
(* lower, replace and slicing are computed and not assumed.                *)
(***************************************************************************)
EXTENDS Integers, Sequences, FiniteSets, TLC

VARIABLES
  pc,                 \* position of the call in synthesize
  text,               \* argument, rebound by line 27
  lang,               \* argument (Optional[str]), rebound by line 28
  provider,           \* argument (Optional[str])
  api_key,            \* environment: ELEVENLABS_API_KEY ("" when not set)
  requested,          \* line 37
  providers_sequence, \* lines 208-218: function names
  idx,                \* position of the for loop of line 221 in providers_sequence
  attempted_names,    \* line 220
  pending,            \* the value a running adapter is about to return
  ret,                \* what synthesize returned or raised
  attempt,            \* try_edge_tts: loop variable of line 71
  temp_path,          \* try_edge_tts / try_pyttsx3: the attempt's temp file
  chunks,             \* try_gtts: line 105
  temp_files,         \* try_gtts: line 111
  chunk_idx,          \* try_gtts: loop variable idx of line 112
  engine,             \* try_pyttsx3: state of the engine instance
  fs,                 \* the temp directory: a set of [name, size] entries
  tmp_count,          \* number of temp files created so far (names are fresh)
  owner,              \* history: owner[p] is the adapter that created temp file p
  rm_failed,          \* history: the temp files whose os.remove raised
  gtts_out,           \* history: try_gtts, the length each completed backend call wrote
  gtts_lang,          \* history: try_gtts, the lang handed to the backend (line 113)
  slept,              \* history: the delays passed to asyncio.sleep, in order
  invoked,            \* history: the adapters entered, in order
  outcomes,           \* history: how each entered adapter ended
  calls,              \* history: number of backend calls made, per adapter
  edge_outer,         \* history: try_edge_tts left through its outer handlers (lines 94-97)
  edge_try,           \* try_edge_tts: how the try block of lines 76-88 was left
  reqs,               \* main.py: the /api/tts requests being handled, by request
  writes,             \* main.py: history of the files written to AUDIO_DIR, in order
  now                 \* main.py: time.time(), in whole seconds

\* the state of one call of synthesize
core == <<pc, text, lang, provider, api_key, requested, providers_sequence, idx,
          attempted_names, pending, ret, attempt, temp_path, chunks, temp_files,
          chunk_idx, engine, fs, tmp_count, owner, rm_failed, gtts_out, gtts_lang, slept, invoked,
          outcomes, calls, edge_outer, edge_try>>

\* the state of the /api/tts handler
api == <<reqs, writes, now>>

vars == <<core, api>>

(***************************************************************************)
(* Bounds of the model.                                                    *)
(***************************************************************************)
MaxTextLen == 2      \* short texts are all strings over {" ", "h"} up to this length
MaxAudioLen == 1     \* a backend call yields 0..MaxAudioLen bytes
MaxFullChunks == 3   \* the chunking is applied to texts of up to this many full chunks
MaxRemainder == 5    \* ... followed by up to this many further characters

(***************************************************************************)
(* Python strings and Optional[str].                                       *)
(***************************************************************************)
NoneStr == [isNone |-> TRUE, s |-> <<>>]

Some(s) == [isNone |-> FALSE, s |-> s]

\* `x or default` for an Optional[str]: None and "" are both falsy.
OrDefault(o, default) == IF o.isNone \/ o.s = <<>> THEN default ELSE o.s

UpperChars == <<"A", "B", "C", "D", "E", "F", "G", "H", "I", "J", "K", "L", "M",
                "N", "O", "P", "Q", "R", "S", "T", "U", "V", "W", "X", "Y", "Z">>

LowerChars == <<"a", "b", "c", "d", "e", "f", "g", "h", "i", "j", "k", "l", "m",
                "n", "o", "p", "q", "r", "s", "t", "u", "v", "w", "x", "y", "z">>

LowerChar(c) ==
  IF \E i \in DOMAIN UpperChars : UpperChars[i] = c
  THEN LowerChars[CHOOSE i \in DOMAIN UpperChars : UpperChars[i] = c]
  ELSE c

\* mutant of Lower: the string is compared as given
Lower_AsGiven(s) == s

\* str.lower()
Lower(s) == [i \in 1..Len(s) |-> LowerChar(s[i])]

Whitespace == {" ", "\t", "\n"}

\* mutant of Strip: the argument is used as given
Strip_Kept(s) == s

\* str.strip(): drops leading and trailing whitespace.
Strip(s) ==
  LET keep == {i \in 1..Len(s) : s[i] \notin Whitespace}
  IN IF keep = {} THEN <<>>
     ELSE LET lo == CHOOSE i \in keep : \A j \in keep : i <= j
              hi == CHOOSE i \in keep : \A j \in keep : j <= i
          IN SubSeq(s, lo, hi)

\* s[i:] and s[:n] of Python, 0-based i.
SliceFrom(s, i) == IF i >= Len(s) THEN <<>> ELSE SubSeq(s, i + 1, Len(s))

SliceTo(s, n) == IF n >= Len(s) THEN s ELSE SubSeq(s, 1, n)

StartsWith(s, p) == Len(p) <= Len(s) /\ SubSeq(s, 1, Len(p)) = p

RECURSIVE Replace(_, _, _)
\* str.replace(old, new) for a non-empty old: every occurrence, left to right.
Replace(s, old, new) ==
  IF s = <<>> THEN <<>>
  ELSE IF StartsWith(s, old) THEN new \o Replace(SliceFrom(s, Len(old)), old, new)
  ELSE <<s[1]>> \o Replace(Tail(s), old, new)

RECURSIVE SumLen(_)
SumLen(segs) == IF segs = <<>> THEN 0 ELSE segs[1].len + SumLen(Tail(segs))

(***************************************************************************)
(* Names and literals of the source.                                       *)
(***************************************************************************)
S_auto == <<"a", "u", "t", "o">>
S_en == <<"e", "n">>
S_edge == <<"e", "d", "g", "e">>
S_gtts == <<"g", "t", "t", "s">>
S_pyttsx3 == <<"p", "y", "t", "t", "s", "x", "3">>
S_elevenlabs == <<"e", "l", "e", "v", "e", "n", "l", "a", "b", "s">>
S_beep == <<"b", "e", "e", "p">>
S_try == <<"t", "r", "y", "_">>
S_edge_tts == <<"e", "d", "g", "e", "_", "t", "t", "s">>

\* __name__ of the four adapter functions
try_edge_tts == S_try \o S_edge_tts
try_gtts == S_try \o S_gtts
try_pyttsx3 == S_try \o S_pyttsx3
try_elevenlabs == S_try \o S_elevenlabs

error_msg == "All TTS providers failed. Please install edge-tts: pip install edge-tts"

attempts == 3
base_delay == 6        \* 0.6 s, in tenths of a second
max_chunk == 400
sample_rate == 44100
duration_den == 2      \* duration = 0.5 = 1 / duration_den

(***************************************************************************)
(* Audio values.  bytes are kept as the sequence of the pieces they were   *)
(* joined from, each with its origin and its length.                       *)
(***************************************************************************)
NoneAudio == [isNone |-> TRUE, segs |-> <<>>]

Bytes(segs) == [isNone |-> FALSE, segs |-> segs]

BytesLen(a) == SumLen(a.segs)

\* truth value of an Optional[bytes]: None and b"" are falsy
TruthyBytes(a) == ~a.isNone /\ BytesLen(a) > 0

\* Optional[Tuple[bytes, str]]
NoneResult == [isNone |-> TRUE, audio |-> NoneAudio, mime |-> ""]

Tuple2(a, m) == [isNone |-> FALSE, audio |-> a, mime |-> m]

(***************************************************************************)
(* What synthesize hands back: a returned 5-tuple or a raised exception.   *)
(***************************************************************************)
Running ==
  [kind |-> "running", audio |-> NoneAudio, mime |-> "", provider_used |-> <<>>,
   attempted |-> <<>>, beep |-> FALSE, exc |-> "", args |-> <<>>]

Return(a, m, p, log, b) ==
  [kind |-> "return", audio |-> a, mime |-> m, provider_used |-> p,
   attempted |-> log, beep |-> b, exc |-> "", args |-> <<>>]

Raise(e, a) ==
  [kind |-> "raise", audio |-> NoneAudio, mime |-> "", provider_used |-> <<>>,
   attempted |-> <<>>, beep |-> FALSE, exc |-> e, args |-> a]

(***************************************************************************)
(* The arguments and the environment of a call.                            *)
(***************************************************************************)
RECURSIVE StringsUpTo(_, _)
StringsUpTo(alphabet, n) ==
  IF n = 0 THEN {<<>>}
  ELSE LET shorter == StringsUpTo(alphabet, n - 1)
       IN shorter \cup {Append(s, c) : s \in shorter, c \in alphabet}

\* a text that try_gtts has to cut: one full chunk and 5 characters more
LongText == [i \in 1..(max_chunk + 5) |-> "h"]

Texts == StringsUpTo({" ", "h"}, MaxTextLen) \cup {LongText}

Langs == {NoneStr, Some(<<"e">>), Some(<<"e", "n", "-", "U", "S">>)}

Providers ==
  {NoneStr, Some(S_auto), Some(S_edge), Some(<<"E", "d", "g", "e">>), Some(S_gtts),
   Some(S_pyttsx3), Some(S_elevenlabs), Some(<<"x">>)}

ApiKeys == {<<>>, <<"k">>}

NoCalls == [edge_tts |-> 0, elevenlabs |-> 0, gtts |-> 0, pyttsx3 |-> 0]

Init ==
  /\ pc = "start"
  /\ text \in Texts
  /\ lang \in Langs
  /\ provider \in Providers
  /\ api_key \in ApiKeys
  /\ requested = <<>>
  /\ providers_sequence = <<>>
  /\ idx = 0
  /\ attempted_names = <<>>
  /\ pending = NoneResult
  /\ ret = Running
  /\ attempt = 0
  /\ temp_path = 0
  /\ chunks = <<>>
  /\ temp_files = <<>>
  /\ chunk_idx = 0
  /\ engine = "none"
  /\ fs = {}
  /\ tmp_count = 0
  /\ owner = <<>>
  /\ rm_failed = {}
  /\ gtts_out = <<>>
  /\ gtts_lang = <<>>
  /\ slept = <<>>
  /\ invoked = <<>>
  /\ outcomes = <<>>
  /\ calls = NoCalls
  /\ edge_outer = FALSE
  /\ edge_try = ""
  /\ reqs = <<>>
  /\ writes = <<>>
  /\ now = 0

(***************************************************************************)
(* The orchestrator: lines 208-227.                                        *)
(***************************************************************************)
\* mutant of ProvidersSequence: the hint is ignored
ProvidersSequence_Auto(req) == <<S_try \o S_edge_tts, S_try \o S_elevenlabs, S_try \o S_gtts, S_try \o S_pyttsx3>>

\* mutant of ProvidersSequence: the chunked adapter tried before the premium one
ProvidersSequence_Swapped(req) ==
  IF req = S_edge THEN <<S_try \o S_edge_tts>>
  ELSE IF req = S_gtts THEN <<S_try \o S_gtts>>
  ELSE IF req = S_pyttsx3 THEN <<S_try \o S_pyttsx3>>
  ELSE IF req = S_elevenlabs THEN <<S_try \o S_elevenlabs>>
  ELSE <<S_try \o S_edge_tts, S_try \o S_gtts, S_try \o S_elevenlabs, S_try \o S_pyttsx3>>

ProvidersSequence(req) ==
  IF req = S_edge THEN <<try_edge_tts>>
  ELSE IF req = S_gtts THEN <<try_gtts>>
  ELSE IF req = S_pyttsx3 THEN <<try_pyttsx3>>
  ELSE IF req = S_elevenlabs THEN <<try_elevenlabs>>
  ELSE <<try_edge_tts, try_elevenlabs, try_gtts, try_pyttsx3>>

\* line 222
AdapterName(fn) == Replace(fn, S_try, <<>>)

\* mutant of LogAttempt: the name is not recorded when the adapter is entered
LogAttempt_Skipped(log, name) == log

\* line 223
LogAttempt(log, name) == Append(log, name)

\* mutant of Truthy: a result never ends the loop
Truthy_Never(res) == FALSE

\* line 225: `if result:` on an Optional[Tuple]; a 2-tuple is always truthy
Truthy(res) == ~res.isNone

\* first position inside each adapter
EntryPc(fn) ==
  CASE fn = try_edge_tts -> "edge_import"
    [] fn = try_elevenlabs -> "eleven_setup"
    [] fn = try_gtts -> "gtts_import"
    [] fn = try_pyttsx3 -> "pyttsx3_init"

AdapterPcs(fn) ==
  CASE fn = try_edge_tts -> {"edge_import", "edge_attempt", "edge_save", "edge_finally", "edge_sleep"}
    [] fn = try_elevenlabs -> {"eleven_setup", "eleven_call"}
    [] fn = try_gtts -> {"gtts_import", "gtts_chunk", "gtts_join"}
    [] fn = try_pyttsx3 -> {"pyttsx3_init", "pyttsx3_run", "pyttsx3_finally"}

\* mutant of Dispatch: the remaining adapters are all started, none awaited first
Dispatch_Eager(seq, i, log) ==
  IF i <= Len(seq)
  THEN /\ idx' = i
       /\ attempted_names' = LogAttempt(log, AdapterName(seq[i]))
       /\ invoked' = invoked \o SubSeq(seq, i, Len(seq))
       /\ pc' = EntryPc(seq[i])
  ELSE /\ idx' = i
       /\ attempted_names' = log
       /\ invoked' = invoked
       /\ pc' = "beep"

\* lines 221-224 for position i of the sequence, or the fall-through to line 231
Dispatch(seq, i, log) ==
  IF i <= Len(seq)
  THEN /\ idx' = i
       /\ attempted_names' = LogAttempt(log, AdapterName(seq[i]))
       /\ invoked' = Append(invoked, seq[i])
       /\ pc' = EntryPc(seq[i])
  ELSE /\ idx' = i
       /\ attempted_names' = log
       /\ invoked' = invoked
       /\ pc' = "beep"

\* lines 224-227: the running adapter returns res
AdapterReturns(res) ==
  /\ outcomes' = Append(outcomes, IF res.isNone THEN "Absent" ELSE "Success")
  /\ pending' = NoneResult
  /\ IF Truthy(res)
     THEN /\ ret' = Return(res.audio, res.mime, AdapterName(providers_sequence[idx]),
                           attempted_names, FALSE)
          /\ pc' = "done"
          /\ UNCHANGED <<idx, attempted_names, invoked>>
     ELSE /\ Dispatch(providers_sequence, idx + 1, attempted_names)
          /\ ret' = ret

\* an exception leaves the running adapter and, nothing catching it, synthesize
AdapterRaises(e) ==
  /\ outcomes' = Append(outcomes, "Raised")
  /\ pending' = NoneResult
  /\ ret' = Raise(e, <<>>)
  /\ pc' = "done"
  /\ UNCHANGED <<idx, attempted_names, invoked>>

\* lines 27-37 and 208-224
Entry ==
  /\ pc = "start"
  /\ UNCHANGED api
  /\ text' = Strip(text)
  /\ lang' = Some(Lower(OrDefault(lang, S_en)))
  /\ IF text' = <<>>
     THEN /\ ret' = Return(NoneAudio, "", <<>>, <<>>, FALSE)
          /\ pc' = "done"
          /\ UNCHANGED <<requested, providers_sequence, idx, attempted_names, invoked>>
     ELSE /\ requested' = Lower(OrDefault(provider, S_auto))
          /\ providers_sequence' = ProvidersSequence(requested')
          /\ Dispatch(providers_sequence', 1, <<>>)
          /\ ret' = ret
  /\ UNCHANGED <<provider, api_key, pending, attempt, temp_path, chunks, temp_files,
                 chunk_idx, gtts_out, gtts_lang, engine, fs, tmp_count, owner, rm_failed, slept,
                 outcomes, calls, edge_outer, edge_try>>

(***************************************************************************)
(* Temp files.                                                             *)
(***************************************************************************)
Exists(p) == \E f \in fs : f.name = p

GetSize(p) == (CHOOSE f \in fs : f.name = p).size

\* mutant of Removed: the file is left in place
Removed_Nothing(dir, p) == dir

Removed(dir, p) == {f \in dir : f.name # p}

Written(dir, p, n) == Removed(dir, p) \cup {[name |-> p, size |-> n]}

args == <<text, lang, provider, api_key, requested, providers_sequence>>

loop == <<idx, attempted_names, invoked, outcomes, ret>>

gtts_locals == <<chunks, temp_files, chunk_idx, gtts_out, gtts_lang>>

\* the temp directory and its history
tmp == <<fs, tmp_count, owner, rm_failed>>

Sizes == 0..MaxAudioLen

Called(name) == [calls EXCEPT ![name] = @ + 1]

(***************************************************************************)
(* try_edge_tts: lines 39-98.                                              *)
(***************************************************************************)
\* mutant of InRange: one attempt too many
InRange_OneMore(a) == a <= attempts + 1

\* line 71: range(1, attempts + 1)
InRange(a) == a <= attempts

\* line 92
RetryAgain(a) == a < attempts

\* mutant of Backoff: a constant delay
Backoff_Constant(a) == base_delay

\* line 93
Backoff(a) == base_delay * a

\* lines 94-98: an exception outside the per-attempt handlers ends the adapter
EdgeOuterHandler ==
  /\ AdapterReturns(NoneResult)
  /\ edge_outer' = TRUE

\* line 71 for the next value of attempt, or the end of the loop and line 98
EdgeNextIteration ==
  IF InRange(attempt + 1)
  THEN /\ attempt' = attempt + 1
       /\ pc' = "edge_attempt"
       /\ UNCHANGED <<loop, pending>>
  ELSE /\ AdapterReturns(NoneResult)
       /\ attempt' = attempt

\* lines 41-42 and 68-71
EdgeImport ==
  /\ pc = "edge_import"
  /\ UNCHANGED api
  /\ \E imp \in {"ok", "ImportError", "Exception"} :
       IF imp = "ok"
       THEN /\ pc' = "edge_attempt"
            /\ attempt' = 1
            /\ UNCHANGED <<loop, pending, edge_outer>>
       ELSE /\ EdgeOuterHandler
            /\ attempt' = attempt
  /\ UNCHANGED <<args, temp_path, gtts_locals, engine, tmp, slept, calls, edge_try>>

\* lines 72-75: the session object and the attempt's temp file; either may raise
EdgeAttempt ==
  /\ pc = "edge_attempt"
  /\ UNCHANGED api
  /\ \E setup \in {"ok", "raise"} :
       IF setup = "ok"
       THEN /\ tmp_count' = tmp_count + 1
            /\ temp_path' = tmp_count'
            /\ owner' = Append(owner, try_edge_tts)
            /\ fs' = Written(fs, temp_path', 0)
            /\ pc' = "edge_save"
            /\ UNCHANGED <<loop, pending, edge_outer>>
       ELSE /\ EdgeOuterHandler
            /\ UNCHANGED <<tmp_count, owner, temp_path, fs>>
  /\ UNCHANGED <<args, attempt, gtts_locals, engine, rm_failed, slept, calls, edge_try>>

\* mutant of EdgeTryOutcome: an empty file is returned like any other
EdgeTryOutcome_NoSizeCheck(save, n, read) ==
  IF save \in {"WSServerHandshakeError", "Exception"} THEN "raised"
  ELSE IF save = "missing" THEN "empty"
  ELSE IF read = "raise" THEN "raised"
  ELSE "returned"

\* lines 76-88: how the try block is left when save() ends as `save` leaving n
\* bytes in the file and the read-back ends as `read`
EdgeTryOutcome(save, n, read) ==
  IF save \in {"WSServerHandshakeError", "Exception"} THEN "raised"
  ELSE IF save = "missing" \/ n = 0 THEN "empty"
  ELSE IF read = "raise" THEN "raised"
  ELSE "returned"

\* lines 76-88: the backend call and the read-back
EdgeSave ==
  /\ pc = "edge_save"
  /\ UNCHANGED api
  /\ calls' = Called("edge_tts")
  /\ \E save \in {"WSServerHandshakeError", "Exception", "ok", "missing"}, n \in Sizes,
        read \in {"ok", "raise"} :
       /\ fs' = IF save = "missing" THEN Removed(fs, temp_path) ELSE Written(fs, temp_path, n)
       /\ edge_try' = EdgeTryOutcome(save, n, read)
       /\ pending' = IF edge_try' = "returned"
                     THEN Tuple2(Bytes(<<[src |-> "edge_tts", part |-> attempt, len |-> n]>>),
                                 "audio/mpeg")
                     ELSE NoneResult
  /\ pc' = "edge_finally"
  /\ UNCHANGED <<args, loop, attempt, temp_path, gtts_locals, engine, tmp_count, owner,
                 rm_failed, slept, edge_outer>>

\* lines 89-93
EdgeFinally ==
  /\ pc = "edge_finally"
  /\ UNCHANGED api
  /\ edge_try' = ""
  /\ \E rm \in {"ok", "raise"} :
       /\ rm = "raise" => Exists(temp_path)
       /\ fs' = IF rm = "ok" THEN Removed(fs, temp_path) ELSE fs
       /\ rm_failed' = IF rm = "ok" THEN rm_failed ELSE rm_failed \cup {temp_path}
       /\ IF rm = "raise"
          THEN /\ EdgeOuterHandler
               /\ attempt' = attempt
          ELSE IF ~pending.isNone
          THEN /\ AdapterReturns(pending)
               /\ UNCHANGED <<attempt, edge_outer>>
          ELSE IF RetryAgain(attempt)
          THEN /\ pc' = "edge_sleep"
               /\ UNCHANGED <<loop, pending, attempt, edge_outer>>
          ELSE /\ EdgeNextIteration
               /\ edge_outer' = edge_outer
  /\ UNCHANGED <<args, temp_path, gtts_locals, engine, tmp_count, owner, slept, calls>>

\* line 93, then the next iteration
EdgeSleep ==
  /\ pc = "edge_sleep"
  /\ UNCHANGED api
  /\ slept' = Append(slept, Backoff(attempt))
  /\ EdgeNextIteration
  /\ UNCHANGED <<args, temp_path, gtts_locals, engine, tmp, calls, edge_outer, edge_try>>

(***************************************************************************)
(* try_elevenlabs: lines 165-206.                                          *)
(***************************************************************************)
\* mutant of NoCredential: the adapter goes on without a key
NoCredential_Ignored(key) == FALSE

\* line 171: `if not api_key`
NoCredential(key) == key = <<>>

\* lines 170-181: credential check, then the import, guarded for ImportError only
ElevenSetup ==
  /\ pc = "eleven_setup"
  /\ UNCHANGED api
  /\ IF NoCredential(api_key)
     THEN AdapterReturns(NoneResult)
     ELSE \E imp \in {"ok", "ImportError", "Exception"} :
            IF imp = "ok"
            THEN /\ pc' = "eleven_call"
                 /\ UNCHANGED <<loop, pending>>
            ELSE IF imp = "ImportError" THEN AdapterReturns(NoneResult)
            ELSE AdapterRaises(imp)
  /\ UNCHANGED <<args, attempt, temp_path, gtts_locals, engine, tmp, slept, calls, edge_outer,
                 edge_try>>

\* lines 183-206: _run on a worker thread, awaited
ElevenCall ==
  /\ pc = "eleven_call"
  /\ UNCHANGED api
  /\ calls' = Called("elevenlabs")
  /\ \E run \in {"ok", "raise"}, n \in Sizes :
       LET buf == Bytes(<<[src |-> "elevenlabs", part |-> 1, len |-> n]>>)
       IN IF run = "ok" /\ TruthyBytes(buf)
          THEN AdapterReturns(Tuple2(buf, "audio/mpeg"))
          ELSE AdapterReturns(NoneResult)
  /\ UNCHANGED <<args, attempt, temp_path, gtts_locals, engine, tmp, slept, edge_outer, edge_try>>

(***************************************************************************)
(* try_gtts: lines 100-132.                                                *)
(***************************************************************************)
\* mutant of Chunked: only the full chunks are kept
Chunked_DropsTail(remaining, k) ==
  [i \in 1..(Len(remaining) \div k) |-> SubSeq(remaining, (i - 1) * k + 1, i * k)]

RECURSIVE Chunked(_, _)
\* lines 105-110
Chunked(remaining, k) ==
  IF remaining = <<>> THEN <<>>
  ELSE <<SliceTo(remaining, k)>> \o Chunked(SliceFrom(remaining, k), k)

\* line 113: the language handed to the backend
GttsLang(l) == IF Len(l) = 2 THEN l ELSE S_en

\* mutant of Joined: only the last chunk's file is read
Joined_LastOnly(files) ==
  Bytes(IF files = <<>> THEN <<>>
        ELSE <<[src |-> "gtts", part |-> Len(files), len |-> GetSize(files[Len(files)])]>>)

\* line 119: the files' contents joined in the order of temp_files
Joined(files) == Bytes([i \in 1..Len(files) |->
                         [src |-> "gtts", part |-> i, len |-> GetSize(files[i])]])

\* lines 102-111
GttsImport ==
  /\ pc = "gtts_import"
  /\ UNCHANGED api
  /\ \E imp \in {"ok", "ImportError", "Exception"} :
       IF imp = "ok"
       THEN /\ chunks' = Chunked(text, max_chunk)
            /\ temp_files' = <<>>
            /\ chunk_idx' = 0
            /\ gtts_out' = <<>>
            /\ gtts_lang' = gtts_lang
            /\ pc' = IF chunks' = <<>> THEN "gtts_join" ELSE "gtts_chunk"
            /\ UNCHANGED <<loop, pending>>
       ELSE /\ AdapterReturns(NoneResult)
            /\ UNCHANGED gtts_locals
  /\ UNCHANGED <<args, attempt, temp_path, engine, tmp, slept, calls, edge_outer, edge_try>>

\* lines 112-117, one iteration: the backend object, the temp file, the backend call
GttsChunk ==
  /\ pc = "gtts_chunk"
  /\ UNCHANGED api
  /\ gtts_lang' = GttsLang(lang.s)
  /\ \E step \in {"ctor_raise", "tmp_raise", "save_raise", "ok"}, n \in Sizes :
       IF step \in {"ctor_raise", "tmp_raise"}
       THEN /\ AdapterReturns(NoneResult)
            /\ UNCHANGED <<temp_files, chunk_idx, gtts_out, fs, tmp_count, owner, calls>>
       ELSE /\ tmp_count' = tmp_count + 1
            /\ owner' = Append(owner, try_gtts)
            /\ temp_files' = Append(temp_files, tmp_count')
            /\ fs' = Written(fs, tmp_count', n)
            /\ calls' = Called("gtts")
            /\ IF step = "save_raise"
               THEN /\ AdapterReturns(NoneResult)
                    /\ UNCHANGED <<chunk_idx, gtts_out>>
               ELSE /\ chunk_idx' = chunk_idx + 1
                    /\ gtts_out' = Append(gtts_out, n)
                    /\ pc' = IF chunk_idx' < Len(chunks) THEN "gtts_chunk" ELSE "gtts_join"
                    /\ UNCHANGED <<loop, pending>>
  /\ UNCHANGED <<args, attempt, temp_path, chunks, engine, rm_failed, slept, edge_outer,
                 edge_try>>

\* lines 119-132: read back and join, remove the files, return
GttsJoin ==
  /\ pc = "gtts_join"
  /\ UNCHANGED api
  /\ \E read \in {"ok", "raise"}, stuck \in SUBSET {temp_files[i] : i \in 1..Len(temp_files)} :
       IF read = "raise"
       THEN /\ stuck = {}
            /\ UNCHANGED <<fs, rm_failed>>
            /\ AdapterReturns(NoneResult)
       ELSE /\ rm_failed' = rm_failed \cup stuck
            /\ fs' = {f \in fs : f.name \in stuck
                                 \/ f.name \notin {temp_files[i] : i \in 1..Len(temp_files)}}
            /\ IF TruthyBytes(Joined(temp_files))
               THEN AdapterReturns(Tuple2(Joined(temp_files), "audio/mpeg"))
               ELSE AdapterReturns(NoneResult)
  /\ UNCHANGED <<args, attempt, temp_path, gtts_locals, engine, tmp_count, owner, slept, calls,
                 edge_outer, edge_try>>

(***************************************************************************)
(* try_pyttsx3: lines 134-163.                                             *)
(***************************************************************************)
\* lines 136-141
Pyttsx3Init ==
  /\ pc = "pyttsx3_init"
  /\ UNCHANGED api
  /\ \E step \in {"ImportError", "Exception", "init_raise", "config_raise", "tmp_raise", "ok"} :
       /\ engine' = IF step \in {"config_raise", "tmp_raise", "ok"} THEN "created" ELSE engine
       /\ IF step = "ok"
          THEN /\ tmp_count' = tmp_count + 1
               /\ temp_path' = tmp_count'
               /\ owner' = Append(owner, try_pyttsx3)
               /\ fs' = Written(fs, temp_path', 0)
               /\ pc' = "pyttsx3_run"
               /\ UNCHANGED <<loop, pending>>
          ELSE /\ AdapterReturns(NoneResult)
               /\ UNCHANGED <<tmp_count, owner, temp_path, fs>>
  /\ UNCHANGED <<args, attempt, gtts_locals, rm_failed, slept, calls, edge_outer, edge_try>>

\* mutant of Pyttsx3Mime: the WAV file announced as MPEG
Pyttsx3Mime_Mpeg == "audio/mpeg"

\* line 151
Pyttsx3Mime == "audio/wav"

\* lines 142-151: the engine call and the read-back
Pyttsx3Run ==
  /\ pc = "pyttsx3_run"
  /\ UNCHANGED api
  /\ calls' = Called("pyttsx3")
  /\ \E run \in {"ok", "raise", "missing"}, n \in Sizes, read \in {"ok", "raise"} :
       /\ fs' = IF run = "missing" THEN Removed(fs, temp_path) ELSE Written(fs, temp_path, n)
       /\ pending' = IF run = "ok" /\ n > 0 /\ read = "ok"
                     THEN Tuple2(Bytes(<<[src |-> "pyttsx3", part |-> 1, len |-> n]>>),
                                 Pyttsx3Mime)
                     ELSE NoneResult
  /\ pc' = "pyttsx3_finally"
  /\ UNCHANGED <<args, loop, attempt, temp_path, gtts_locals, engine, tmp_count, owner,
                 rm_failed, slept, edge_outer, edge_try>>

\* lines 152-163
Pyttsx3Finally ==
  /\ pc = "pyttsx3_finally"
  /\ UNCHANGED api
  /\ \E stop \in {"ok", "raise"}, rm \in {"ok", "raise"} :
       /\ rm = "raise" => Exists(temp_path)
       /\ engine' = IF stop = "ok" THEN "stopped" ELSE "stop_raised"
       /\ fs' = IF rm = "ok" THEN Removed(fs, temp_path) ELSE fs
       /\ rm_failed' = IF rm = "ok" THEN rm_failed ELSE rm_failed \cup {temp_path}
       /\ AdapterReturns(IF rm = "ok" THEN pending ELSE NoneResult)
  /\ UNCHANGED <<args, attempt, temp_path, gtts_locals, tmp_count, owner, slept, calls, edge_outer,
                 edge_try>>

(***************************************************************************)
(* The placeholder beep and the final raise: lines 229-266.                *)
(***************************************************************************)
\* struct.calcsize of one field of a '<' format
FieldSize(code) ==
  CASE code = "4s" -> 4
    [] code = "I" -> 4
    [] code = "H" -> 2
    [] code = "h" -> 2

RECURSIVE CalcSize(_)
CalcSize(fmt) == IF fmt = <<>> THEN 0 ELSE FieldSize(fmt[1]) + CalcSize(Tail(fmt))

\* mutant of num_samples: the duration left out
num_samples_OneSecond == sample_rate

\* line 242: int(sample_rate * duration)
num_samples == sample_rate \div duration_den

\* lines 252-255: the three struct.pack calls that make up wav_header
WavHeaderLen ==
  CalcSize(<<"4s", "I", "4s">>)
  + CalcSize(<<"4s", "I", "H", "H", "I", "I", "H", "H">>)
  + CalcSize(<<"4s", "I">>)

\* struct.pack of one integer field of a '<' format (it does not wrap: a value
\* outside the field's range raises struct.error, see Packable)
PackInt(code, v) == [code |-> code, int |-> v, tag |-> ""]

\* the values struct.pack accepts for a field; every unsigned value the model
\* can hold fits the 4 bytes of 'I'
Packable(f) ==
  CASE f.code = "4s" -> TRUE
    [] f.code = "H" -> f.int >= 0 /\ f.int < 2 ^ 16
    [] f.code = "I" -> f.int >= 0
    [] f.code = "h" -> f.int >= -(2 ^ 15) /\ f.int < 2 ^ 15

\* struct.pack of a '4s' field
PackTag(t) == [code |-> "4s", int |-> 0, tag |-> t]

\* line 243-249: len(samples), one packed '<h' value per sample
len_samples == num_samples

\* mutant of wav_header: the data size counted in samples, not in bytes
wav_header_SizeInSamples ==
  <<PackTag("RIFF"), PackInt("I", 36 + len_samples), PackTag("WAVE"),
    PackTag("fmt "), PackInt("I", 16), PackInt("H", 1), PackInt("H", 1),
    PackInt("I", sample_rate), PackInt("I", sample_rate * 2), PackInt("H", 2),
    PackInt("H", 16),
    PackTag("data"), PackInt("I", len_samples)>>

\* lines 252-255: the fields of wav_header in the order they are packed
wav_header ==
  <<PackTag("RIFF"), PackInt("I", 36 + len_samples * 2), PackTag("WAVE"),
    PackTag("fmt "), PackInt("I", 16), PackInt("H", 1), PackInt("H", 1),
    PackInt("I", sample_rate), PackInt("I", sample_rate * 2), PackInt("H", 2),
    PackInt("H", 16),
    PackTag("data"), PackInt("I", len_samples * 2)>>

RECURSIVE PackedLen(_)
\* len() of the packed fields
PackedLen(fields) ==
  IF fields = <<>> THEN 0 ELSE FieldSize(fields[1].code) + PackedLen(Tail(fields))

\* lines 245-249 and 257: wav_header + b''.join(samples)
BeepAudio ==
  Bytes(<<[src |-> "wav_header", part |-> 1, len |-> WavHeaderLen],
          [src |-> "samples", part |-> 1, len |-> num_samples * CalcSize(<<"h">>)]>>)

\* values an exception is constructed from
StrVal(s) == [tag |-> "str", str |-> s, list |-> <<>>]

ListVal(l) == [tag |-> "list", str |-> "", list |-> l]

\* mutant of RaiseArgs: the attempt log attached to the error
RaiseArgs_WithLog(log) == <<StrVal(error_msg), ListVal(log)>>

\* lines 264-266: RuntimeError(error_msg), whatever the attempt log
RaiseArgs(log) == <<StrVal(error_msg)>>

\* mutant of BeepReturn: the placeholder not flagged
BeepReturn_NotFlagged(log) == Return(BeepAudio, "audio/wav", S_beep, log, FALSE)

\* line 259
BeepReturn(log) == Return(BeepAudio, "audio/wav", S_beep, log, TRUE)

Beep ==
  /\ pc = "beep"
  /\ UNCHANGED api
  /\ \E gen \in {"ok", "MemoryError"} :
       ret' = IF gen = "ok"
              THEN BeepReturn(attempted_names)
              ELSE Raise("RuntimeError", RaiseArgs(attempted_names))
  /\ pc' = "done"
  /\ UNCHANGED <<args, idx, attempted_names, invoked, outcomes, pending, attempt, temp_path,
                 gtts_locals, engine, tmp, slept, calls, edge_outer, edge_try>>

Next ==
  \/ Entry
  \/ EdgeImport
  \/ EdgeAttempt
  \/ EdgeSave
  \/ EdgeFinally
  \/ EdgeSleep
  \/ ElevenSetup
  \/ ElevenCall
  \/ GttsImport
  \/ GttsChunk
  \/ GttsJoin
  \/ Pyttsx3Init
  \/ Pyttsx3Run
  \/ Pyttsx3Finally
  \/ Beep

Spec == Init /\ [][Next]_vars

\* every awaited step (backend call, import, file operation, sleep) returns or
\* raises: the single coroutine of the call is never stuck at a step it can take
\* (the language, which no loop bound depends on, is left at its default)
InitLive == Init /\ lang = NoneStr

SpecLive == InitLive /\ [][Next]_vars /\ WF_vars(Next)

(***************************************************************************)
(* The chunking of try_gtts (lines 103-110) on its own: the text is drawn  *)
(* from the lengths q * max_chunk + r and the loop is applied to it.       *)
(***************************************************************************)
Alphabet == <<"a", "b", "c">>

\* the text of length n repeating the first `period` letters
Pattern(n, period) == [i \in 1..n |-> Alphabet[((i - 1) % period) + 1]]

ChunkTexts ==
  {Pattern(q * max_chunk + r, period) :
     q \in 0..MaxFullChunks, r \in 0..MaxRemainder, period \in 1..Len(Alphabet)}

InitChunk ==
  /\ pc = "chunk_start"
  /\ text \in ChunkTexts
  /\ lang = Some(S_en)
  /\ provider = Some(S_gtts)
  /\ api_key = <<>>
  /\ requested = S_gtts
  /\ providers_sequence = <<try_gtts>>
  /\ idx = 1
  /\ attempted_names = <<S_gtts>>
  /\ pending = NoneResult
  /\ ret = Running
  /\ attempt = 0
  /\ temp_path = 0
  /\ chunks = <<>>
  /\ temp_files = <<>>
  /\ chunk_idx = 0
  /\ engine = "none"
  /\ fs = {}
  /\ tmp_count = 0
  /\ owner = <<>>
  /\ rm_failed = {}
  /\ gtts_out = <<>>
  /\ gtts_lang = <<>>
  /\ slept = <<>>
  /\ invoked = <<try_gtts>>
  /\ outcomes = <<>>
  /\ calls = NoCalls
  /\ edge_outer = FALSE
  /\ edge_try = ""
  /\ reqs = <<>>
  /\ writes = <<>>
  /\ now = 0

\* lines 103-110
ChunkLoop ==
  /\ pc = "chunk_start"
  /\ UNCHANGED api
  /\ chunks' = Chunked(text, max_chunk)
  /\ pc' = "chunk_done"
  /\ UNCHANGED <<args, loop, pending, attempt, temp_path, temp_files, chunk_idx, gtts_out,
                 gtts_lang,
                 engine, tmp, slept, calls, edge_outer, edge_try>>

NextChunk == ChunkLoop

SpecChunk == InitChunk /\ [][NextChunk]_vars

(***************************************************************************)
(* The /api/tts handler of src/app/main.py, with the synthesize of         *)
(* src/app/tts.py that it imports, for requests handled concurrently.      *)
(* The requests interleave at the awaits of the handler; lines 221-235     *)
(* hold no await and are one step.                                         *)
(***************************************************************************)
MaxClock == 1        \* time.time() takes the whole seconds 0..MaxClock

\* the requests in flight
Requests == {1, 2}

\* req.text
ApiTexts == {<<" ">>, <<"h">>, <<"h", " ">>, <<"g">>}

\* language after main.py lines 175-177
ApiLangs == {S_en, <<"f", "r">>}

\* settings.TTS_PROVIDER, unset or set
TtsProviders == {<<>>, S_gtts}

\* some of the values of random.randint(1002, 9999), main.py line 228
RandomIds == {1002, 9999}

\* main.py line 214: settings.TTS_PROVIDER or "edge"
OrEdge(p) == IF p = <<>> THEN S_edge ELSE p

ApiNoAudio == [isNone |-> TRUE, src |-> "", len |-> 0]

ApiAudio(src, n) == [isNone |-> FALSE, src |-> src, len |-> n]

NotAudio_Never(audio) == FALSE

\* main.py line 221: not audio
NotAudio(audio) == audio.isNone \/ audio.len = 0

\* main.py lines 213-219: the fallback call is inside the handler of the
\* first call's RuntimeError only
MayFallback(r) == Len(r.calls) = 1

\* main.py line 225: hashlib.md5(text_for_tts.encode()).hexdigest()[:8],
\* a function of the text alone; taken injective on ApiTexts
text_hash(t) == t

\* main.py line 227
file_extension(mime) == IF mime = "audio/mpeg" THEN "mp3" ELSE "wav"

\* main.py lines 229-230
file_path(language, t, timestamp, random_id, mime) ==
  <<"tts", language, text_hash(t), timestamp, random_id, file_extension(mime)>>

NoPath == <<>>

\* raised counts the RuntimeErrors synthesize raised to the handler
NewRequest(t, language, p) ==
  [pc |-> "enter", text |-> t, language |-> language, tts_provider |-> p,
   text_for_tts |-> <<>>, calls |-> <<>>, audio |-> ApiNoAudio, mime |-> "",
   raised |-> 0, status |-> 0, path |-> NoPath]

InitApi ==
  /\ pc = "done"
  /\ text = <<>>
  /\ lang = NoneStr
  /\ provider = NoneStr
  /\ api_key = <<>>
  /\ requested = S_auto
  /\ providers_sequence = <<>>
  /\ idx = 1
  /\ attempted_names = <<>>
  /\ pending = NoneResult
  /\ ret = Running
  /\ attempt = 0
  /\ temp_path = 0
  /\ chunks = <<>>
  /\ temp_files = <<>>
  /\ chunk_idx = 0
  /\ engine = "none"
  /\ fs = {}
  /\ tmp_count = 0
  /\ owner = <<>>
  /\ rm_failed = {}
  /\ gtts_out = <<>>
  /\ gtts_lang = <<>>
  /\ slept = <<>>
  /\ invoked = <<>>
  /\ outcomes = <<>>
  /\ calls = NoCalls
  /\ edge_outer = FALSE
  /\ edge_try = ""
  /\ \E p \in TtsProviders :
       reqs \in [Requests -> {NewRequest(t, l, p) : t \in ApiTexts, l \in ApiLangs}]
  /\ writes = <<>>
  /\ now = 0

\* main.py lines 179-180 and the call of line 214
ApiEnter(r) ==
  /\ reqs[r].pc = "enter"
  /\ reqs' = [reqs EXCEPT ![r].text_for_tts = Strip(reqs[r].text),
                          ![r].calls = <<OrEdge(reqs[r].tts_provider)>>,
                          ![r].pc = "synth"]
  /\ UNCHANGED <<core, writes, now>>

\* tts.py lines 19-24
SynthClean(r) ==
  /\ reqs[r].pc = "synth"
  /\ IF Strip(reqs[r].text_for_tts) = <<>>
       THEN reqs' = [reqs EXCEPT ![r].audio = ApiNoAudio, ![r].mime = "",
                                 ![r].pc = "returned"]
       ELSE reqs' = [reqs EXCEPT ![r].pc = "edge"]
  /\ UNCHANGED <<core, writes, now>>

\* tts.py lines 28-88: one attempt; an exception or an empty file falls through
SynthEdge(r) ==
  /\ reqs[r].pc = "edge"
  /\ \E raised \in BOOLEAN, n \in 0..MaxAudioLen :
       IF ~raised /\ n > 0
         THEN reqs' = [reqs EXCEPT ![r].audio = ApiAudio("edge", n),
                                   ![r].mime = "audio/mpeg", ![r].pc = "returned"]
         ELSE reqs' = [reqs EXCEPT ![r].pc = "pyttsx3"]
  /\ UNCHANGED <<core, writes, now>>

\* tts.py lines 91-118
SynthPyttsx3(r) ==
  /\ reqs[r].pc = "pyttsx3"
  /\ \E raised \in BOOLEAN, n \in 0..MaxAudioLen :
       IF ~raised /\ n > 0
         THEN reqs' = [reqs EXCEPT ![r].audio = ApiAudio("pyttsx3", n),
                                   ![r].mime = "audio/wav", ![r].pc = "returned"]
         ELSE reqs' = [reqs EXCEPT ![r].pc = "beep"]
  /\ UNCHANGED <<core, writes, now>>

\* tts.py lines 123-158
SynthBeep(r) ==
  /\ reqs[r].pc = "beep"
  /\ \E raised \in BOOLEAN :
       IF ~raised
         THEN reqs' = [reqs EXCEPT ![r].audio = ApiAudio("beep", PackedLen(wav_header) + num_samples * 2),
                                   ![r].mime = "audio/wav", ![r].pc = "returned"]
         ELSE reqs' = [reqs EXCEPT ![r].raised = @ + 1, ![r].pc = "raised"]
  /\ UNCHANGED <<core, writes, now>>

\* main.py lines 215-219
ApiExcept(r) ==
  /\ reqs[r].pc = "raised"
  /\ IF MayFallback(reqs[r])
       THEN reqs' = [reqs EXCEPT ![r].calls = Append(@, S_edge), ![r].pc = "synth"]
       ELSE reqs' = [reqs EXCEPT ![r].status = 400, ![r].pc = "done"]
  /\ UNCHANGED <<core, writes, now>>

\* main.py lines 221-222
ApiReject(r) ==
  /\ reqs[r].pc = "returned"
  /\ NotAudio(reqs[r].audio)
  /\ reqs' = [reqs EXCEPT ![r].status = 400, ![r].pc = "done"]
  /\ UNCHANGED <<core, writes, now>>

\* main.py lines 225-246
ApiSave(r) ==
  /\ reqs[r].pc = "returned"
  /\ ~NotAudio(reqs[r].audio)
  /\ \E random_id \in RandomIds :
       LET p == file_path(reqs[r].language, reqs[r].text_for_tts, now, random_id,
                          reqs[r].mime)
       IN /\ writes' = Append(writes, [path |-> p, by |-> r, audio |-> reqs[r].audio])
          /\ reqs' = [reqs EXCEPT ![r].path = p, ![r].status = 200, ![r].pc = "done"]
  /\ UNCHANGED <<core, now>>

\* main.py line 226: the clock of time.time()
Tick ==
  /\ now < MaxClock
  /\ now' = now + 1
  /\ UNCHANGED <<core, reqs, writes>>

NextApi ==
  \/ \E r \in Requests : ApiEnter(r)
  \/ \E r \in Requests : SynthClean(r)
  \/ \E r \in Requests : SynthEdge(r)
  \/ \E r \in Requests : SynthPyttsx3(r)
  \/ \E r \in Requests : SynthBeep(r)
  \/ \E r \in Requests : ApiExcept(r)
  \/ \E r \in Requests : ApiReject(r)
  \/ \E r \in Requests : ApiSave(r)
  \/ Tick

SpecApi == InitApi /\ [][NextApi]_vars

(***************************************************************************)
(* Vocabulary of the properties.                                           *)
(***************************************************************************)
AdapterFns == {try_edge_tts, try_elevenlabs, try_gtts, try_pyttsx3}

SpecificHints == {S_edge, S_elevenlabs, S_gtts, S_pyttsx3}

\* the name each adapter is logged under
LoggedName(fn) ==
  CASE fn = try_edge_tts -> S_edge_tts
    [] fn = try_elevenlabs -> S_elevenlabs
    [] fn = try_gtts -> S_gtts
    [] fn = try_pyttsx3 -> S_pyttsx3

\* the adapter a specific hint selects
HintAdapter(req) ==
  CASE req = S_edge -> try_edge_tts
    [] req = S_elevenlabs -> try_elevenlabs
    [] req = S_gtts -> try_gtts
    [] req = S_pyttsx3 -> try_pyttsx3

SrcTag(fn) ==
  CASE fn = try_edge_tts -> "edge_tts"
    [] fn = try_elevenlabs -> "elevenlabs"
    [] fn = try_gtts -> "gtts"
    [] fn = try_pyttsx3 -> "pyttsx3"

ProducerMime(fn) == IF fn = try_pyttsx3 THEN "audio/wav" ELSE "audio/mpeg"

AutoFns == <<try_edge_tts, try_elevenlabs, try_gtts, try_pyttsx3>>

AutoLog == <<S_edge_tts, S_elevenlabs, S_gtts, S_pyttsx3>>

IsPrefix(a, b) == Len(a) <= Len(b) /\ a = SubSeq(b, 1, Len(a))

Blank(s) == \A i \in 1..Len(s) : s[i] \in Whitespace

AllAbsent == \A i \in 1..Len(outcomes) : outcomes[i] = "Absent"

\* every adapter of the sequence was entered and returned None
Exhausted == Len(providers_sequence) > 0 /\ Len(outcomes) = Len(providers_sequence) /\ AllAbsent

(***************************************************************************)
(* C1                                                                      *)
(***************************************************************************)
\* C1: for non-blank text, a finished call either returned non-empty audio bytes
\* or raised the total-failure RuntimeError, whatever the adapters did.
C1_NonEmptyOrTotalFailure ==
  (pc = "done" /\ text # <<>>) =>
    \/ ret.kind = "return" /\ TruthyBytes(ret.audio)
    \/ ret.kind = "raise" /\ ret.exc = "RuntimeError"

(***************************************************************************)
(* C2                                                                      *)
(***************************************************************************)
\* C2 as stated: for blank text a finished call has raised an error.
C2_BlankRaises ==
  (pc = "done" /\ text = <<>>) => ret.kind = "raise"

\* C2 as amended: the step taken on an empty or whitespace-only text ends the
\* call with the normal return value (None, "", "", [], False); no adapter has
\* been entered, no backend called, and the attempt log is empty.
C2_BlankReturnsNone ==
  [][(pc = "start" /\ Blank(text)) =>
       /\ pc' = "done"
       /\ ret' = Return(NoneAudio, "", <<>>, <<>>, FALSE)
       /\ attempted_names' = <<>>
       /\ invoked' = <<>>
       /\ calls' = NoCalls]_vars

C2_Witness ==
  /\ pc = "done"
  /\ text = <<>>
  /\ ret.kind = "return"
  /\ ret.audio.isNone
  /\ ret.attempted = <<>>
  /\ provider = Some(S_gtts)

(***************************************************************************)
(* C3                                                                      *)
(***************************************************************************)
\* C3 as stated: with a specific hint the returned log is exactly the hinted name.
C3_LogIsHint ==
  (requested \in SpecificHints /\ pc = "done" /\ ret.kind = "return") =>
    /\ Len(invoked) = 1
    /\ ret.attempted = <<requested>>

\* C3 as amended: with a specific hint exactly the hinted adapter is entered and
\* the log, also the returned one and also with the beep as outcome, is the one
\* name that adapter is logged under: edge_tts for the hint edge, the hint itself
\* for the other three.
C3_SingleAdapter ==
  requested \in SpecificHints =>
    /\ invoked = <<HintAdapter(requested)>>
    /\ attempted_names = <<LoggedName(HintAdapter(requested))>>
    /\ ret.kind = "return" => ret.attempted = <<LoggedName(HintAdapter(requested))>>

C3_Witness ==
  /\ requested = S_edge
  /\ pc = "done"
  /\ ret.beep
  /\ ret.attempted = <<S_edge_tts>>

C5_EdgeNamedEdge ==
  (requested = S_auto /\ outcomes = <<"Success">>) =>
    /\ ret.provider_used = S_edge
    /\ ret.mime = "audio/mpeg"
    /\ ret.attempted = <<S_edge>>
    /\ ~ret.beep

\* C5 as amended: a Success is the last outcome and ends the call at once: no
\* adapter is entered after it, the call returns that adapter's non-empty audio
\* and mime type under that adapter's logged name with the beep flag false; for
\* auto with a working streaming backend that is edge_tts, audio/mpeg, [edge_tts].
C5_FirstSuccessTerminates ==
  \A i \in 1..Len(outcomes) :
    outcomes[i] = "Success" =>
      /\ i = Len(outcomes)
      /\ Len(invoked) = i
      /\ pc = "done"
      /\ ret.kind = "return"
      /\ ~ret.beep
      /\ ret.provider_used = LoggedName(invoked[i])
      /\ ret.attempted = attempted_names
      /\ TruthyBytes(ret.audio)
      /\ \A k \in 1..Len(ret.audio.segs) : ret.audio.segs[k].src = SrcTag(invoked[i])
      /\ ret.mime = ProducerMime(invoked[i])
      /\ (requested = S_auto /\ i = 1) =>
           /\ ret.provider_used = S_edge_tts
           /\ ret.mime = "audio/mpeg"
           /\ ret.attempted = <<S_edge_tts>>

C5_Witness ==
  /\ requested = S_auto
  /\ outcomes = <<"Absent", "Absent", "Success">>
  /\ ret.provider_used = S_gtts
  /\ Len(ret.audio.segs) = 2

(***************************************************************************)
(* C6                                                                      *)
(***************************************************************************)
\* C6: with hint auto, when all four adapters returned None, the returned outcome
\* is the beep: provider "beep", beep flag true, audio/wav, 44 header bytes
\* followed by 22050 two-byte samples, 44144 bytes in all.
C6_BeepOutcome ==
  (requested = S_auto /\ Exhausted /\ ret.kind = "return") =>
    /\ ret.provider_used = S_beep
    /\ ret.beep
    /\ ret.mime = "audio/wav"
    /\ Len(ret.audio.segs) = 2
    /\ ret.audio.segs[1].len = 44
    /\ ret.audio.segs[2].len = 2 * 22050
    /\ BytesLen(ret.audio) = 44144
    /\ ret.attempted = AutoLog

C6_Witness ==
  /\ requested = S_auto
  /\ Exhausted
  /\ Len(outcomes) = 4
  /\ ret.kind = "return"
  /\ ret.beep

(***************************************************************************)
(* C7                                                                      *)
(***************************************************************************)
\* C7: synthesize raises only when every adapter of the sequence returned None
\* and the beep generation failed; no exception of an adapter step gets out.
C7_OnlyTotalFailureRaises ==
  ret.kind = "raise" =>
    /\ ret.exc = "RuntimeError"
    /\ Exhausted

(***************************************************************************)
(* C8                                                                      *)
(***************************************************************************)
\* C8 as stated: the total-failure error carries the attempt log.
C8_ErrorCarriesLog ==
  (ret.kind = "raise" /\ ret.exc = "RuntimeError") =>
    \E i \in 1..Len(ret.args) : ret.args[i].tag = "list" /\ ret.args[i].list = attempted_names

\* C8 as amended: the error raised after all adapters returned None and the beep
\* generation failed is a RuntimeError made of one fixed message; the attempt
\* log, which then names every adapter of the sequence, is not part of it.
C8_ErrorIsMessageOnly ==
  (ret.kind = "raise" /\ ret.exc = "RuntimeError") =>
    /\ Exhausted
    /\ Len(attempted_names) = Len(providers_sequence)
    /\ ret.args = <<StrVal(error_msg)>>

C8_Witness ==
  /\ ret.kind = "raise"
  /\ ret.exc = "RuntimeError"
  /\ attempted_names = AutoLog

(***************************************************************************)
(* C9                                                                      *)
(***************************************************************************)
\* C9: the streaming adapter sleeps base_delay after attempt 1 and 2*base_delay
\* after attempt 2 and never otherwise; when every attempt's backend call failed
\* (the adapter did not leave through its outer handlers) it returned None after
\* exactly 3 backend calls and exactly those two sleeps.
C9_RetryBound ==
  /\ calls.edge_tts <= 3
  /\ Len(slept) <= 2
  /\ pc \in {"edge_attempt", "edge_save", "edge_finally", "edge_sleep"} =>
       /\ attempt \in 1..3
       /\ slept = [i \in 1..(attempt - 1) |-> i * base_delay]
       /\ calls.edge_tts = IF pc \in {"edge_attempt", "edge_save"} THEN attempt - 1 ELSE attempt
  /\ (Len(outcomes) >= 1 /\ invoked[1] = try_edge_tts /\ outcomes[1] = "Absent" /\ ~edge_outer) =>
       /\ calls.edge_tts = 3
       /\ slept = <<base_delay, 2 * base_delay>>

C9_Witness ==
  /\ Len(outcomes) >= 1
  /\ invoked[1] = try_edge_tts
  /\ outcomes[1] = "Absent"
  /\ ~edge_outer
  /\ calls.edge_tts = 3
  /\ slept = <<base_delay, 2 * base_delay>>

(***************************************************************************)
(* C10                                                                     *)
(***************************************************************************)
\* C10: the log names the entered adapters in the order they were entered, and
\* while an adapter is running, its result not yet known, its name is already
\* the last entry of the log.
C10_LoggedBeforeResult ==
  /\ Len(attempted_names) = Len(invoked)
  /\ \A i \in 1..Len(invoked) : attempted_names[i] = LoggedName(invoked[i])
  /\ \A fn \in AdapterFns :
       pc \in AdapterPcs(fn) =>
         /\ invoked # <<>>
         /\ invoked[Len(invoked)] = fn
         /\ attempted_names[Len(attempted_names)] = LoggedName(fn)
         /\ Len(outcomes) = Len(invoked) - 1

C10_Witness ==
  /\ pc = "gtts_chunk"
  /\ attempted_names = <<S_edge_tts, S_elevenlabs, S_gtts>>
  /\ outcomes = <<"Absent", "Absent">>

(***************************************************************************)
(* C11: adapters, and the attempts of try_edge_tts, run one at a time.     *)
(***************************************************************************)
\* adapters entered and not yet ended
InFlight == Len(invoked) - Len(outcomes)

RunningPcs == UNION {AdapterPcs(fn) : fn \in AdapterFns}

\* the temp files of adapter fn that exist
FilesOf(fn) == {f \in fs : owner[f.name] = fn}

\* C11: within one call of synthesize at most one adapter is in flight, it is
\* the one entered last, every adapter entered before it has ended (with
\* nothing), and inside try_edge_tts attempt k starts only when the k-1 earlier
\* attempts have made their backend call and left no temp file, so that at
\* most one attempt (one backend call, one temp file) is in flight.
C11_OneInFlight ==
  /\ InFlight \in {0, 1}
  /\ (InFlight = 1) <=> (pc \in RunningPcs)
  /\ \A fn \in AdapterFns : pc \in AdapterPcs(fn) => invoked[Len(invoked)] = fn
  /\ \A i \in 1..Len(invoked) : i < Len(invoked) => outcomes[i] = "Absent"
  /\ pc \in {"edge_attempt", "edge_save"} =>
       /\ calls.edge_tts = attempt - 1
       /\ Len(slept) = attempt - 1
  /\ pc \in {"edge_attempt", "edge_sleep"} => FilesOf(try_edge_tts) = {}
  /\ pc \in {"edge_save", "edge_finally"} =>
       /\ FilesOf(try_edge_tts) \subseteq {f \in fs : f.name = temp_path}
       /\ temp_path = attempt
  /\ pc \in {"edge_finally", "edge_sleep"} => calls.edge_tts = attempt

\* the third adapter of the automatic order running after three streaming
\* attempts and the premium adapter have ended
C11_Witness ==
  /\ pc = "gtts_chunk"
  /\ Len(invoked) = 3
  /\ Len(outcomes) = 2
  /\ calls.edge_tts = attempts

(***************************************************************************)
(* C12: the chunking of try_gtts.                                          *)
(***************************************************************************)
RECURSIVE Flatten(_)
Flatten(pieces) == IF pieces = <<>> THEN <<>> ELSE Head(pieces) \o Flatten(Tail(pieces))

\* C12: with K = max_chunk, a text of length n is split into exactly
\* ceil(n / K) pieces, in order; every piece is non-empty and of length K
\* except possibly the last, which is no longer than K; the pieces
\* concatenated are the text; for n = 3K + 5 there are exactly 4 pieces and
\* the last has length 5.
C12_ChunkShape ==
  pc = "chunk_done" =>
    LET n == Len(text)
        K == max_chunk
        m == Len(chunks)
    IN /\ m = (n + K - 1) \div K
       /\ \A i \in 1..m :
            /\ chunks[i] # <<>>
            /\ Len(chunks[i]) <= K
            /\ i < m => Len(chunks[i]) = K
       /\ Flatten(chunks) = text
       /\ n = 3 * K + 5 => m = 4 /\ Len(chunks[4]) = 5

\* a text of length 3K + 5 has been chunked
C12_Witness ==
  /\ pc = "chunk_done"
  /\ Len(text) = 3 * max_chunk + 5
  /\ Len(chunks) = 4

(***************************************************************************)
(* C14: the mime type of a returned outcome.                               *)
(***************************************************************************)
\* C14 as stated: every returned outcome has mime audio/mpeg or audio/wav,
\* audio/mpeg exactly when provider_used is edge, elevenlabs or gtts and
\* audio/wav exactly when it is pyttsx3 or beep.
C14_MimeOfEveryOutcome ==
  ret.kind = "return" =>
    /\ ret.mime \in {"audio/mpeg", "audio/wav"}
    /\ (ret.mime = "audio/mpeg") <=> (ret.provider_used \in {S_edge, S_elevenlabs, S_gtts})
    /\ (ret.mime = "audio/wav") <=> (ret.provider_used \in {S_pyttsx3, S_beep})

\* C14, amended: every returned outcome that carries audio has mime audio/mpeg
\* or audio/wav, audio/mpeg exactly when provider_used is edge_tts, elevenlabs
\* or gtts and audio/wav exactly when it is pyttsx3 or beep; the outcome
\* returned for blank text carries no audio, no provider and the mime "".
C14_MimeByProducer ==
  ret.kind = "return" =>
    IF ret.audio.isNone
    THEN /\ text = <<>>
         /\ invoked = <<>>
         /\ ret.mime = ""
         /\ ret.provider_used = <<>>
    ELSE /\ ret.mime \in {"audio/mpeg", "audio/wav"}
         /\ (ret.mime = "audio/mpeg") <=>
              (ret.provider_used \in {S_edge_tts, S_elevenlabs, S_gtts})
         /\ (ret.mime = "audio/wav") <=> (ret.provider_used \in {S_pyttsx3, S_beep})

\* the offline adapter's audio returned in the automatic order
C14_Witness ==
  /\ ret.kind = "return"
  /\ requested = S_auto
  /\ ret.provider_used = S_pyttsx3
  /\ ret.mime = "audio/wav"
  /\ ~ret.audio.isNone

(***************************************************************************)
(* C15: the temp files of try_edge_tts and try_pyttsx3.                    *)
(***************************************************************************)
\* adapter fn was entered and has ended
Finished(fn) == \E i \in 1..Len(outcomes) : invoked[i] = fn

\* the temp files adapter fn created, existing or not
CreatedBy(fn) == {p \in 1..Len(owner) : owner[p] = fn}

\* C15 as stated: once try_edge_tts or try_pyttsx3 has ended, however it
\* ended, no temp file it created exists.
C15_NoTempFileLeft ==
  \A fn \in {try_edge_tts, try_pyttsx3} : Finished(fn) => FilesOf(fn) = {}

\* C15, amended: once try_edge_tts or try_pyttsx3 has ended, the only temp
\* files of it that exist are those whose os.remove raised, and then the
\* adapter returned nothing; every attempt gets a file that did not exist
\* before and is empty when the backend call starts.
C15_TempFilesRemoved ==
  /\ \A fn \in {try_edge_tts, try_pyttsx3} :
       Finished(fn) =>
         /\ \A f \in FilesOf(fn) : f.name \in rm_failed
         /\ \A i \in 1..Len(outcomes) :
              (invoked[i] = fn /\ FilesOf(fn) # {}) => outcomes[i] = "Absent"
  /\ pc = "edge_save" =>
       /\ temp_path = tmp_count
       /\ owner[temp_path] = try_edge_tts
       /\ Cardinality(CreatedBy(try_edge_tts)) = attempt
       /\ Exists(temp_path) /\ GetSize(temp_path) = 0
  /\ pc = "pyttsx3_run" =>
       /\ temp_path = tmp_count
       /\ owner[temp_path] = try_pyttsx3
       /\ Cardinality(CreatedBy(try_pyttsx3)) = 1
       /\ Exists(temp_path) /\ GetSize(temp_path) = 0

\* three streaming attempts and the offline adapter each created a file and
\* none is left
C15_Witness ==
  /\ Finished(try_edge_tts)
  /\ Finished(try_pyttsx3)
  /\ Cardinality(CreatedBy(try_edge_tts)) = attempts
  /\ Cardinality(CreatedBy(try_pyttsx3)) = 1
  /\ FilesOf(try_edge_tts) = {}
  /\ FilesOf(try_pyttsx3) = {}

(***************************************************************************)
(* C16: the temp files of try_gtts.                                        *)
(***************************************************************************)
\* C16: once try_gtts has ended, every per-chunk temp file it created has been
\* removed (a file whose removal itself failed aside), also when the backend
\* call of some chunk raised after temp files had been created.
C16_ChunkFilesRemoved ==
  Finished(try_gtts) => \A f \in FilesOf(try_gtts) : f.name \in rm_failed

(***************************************************************************)
(* C17: the engine of try_pyttsx3.                                         *)
(***************************************************************************)
\* C17: once try_pyttsx3 has ended, an engine instance that was created has had
\* stop() called on it, whichever step of the adapter raised.
C17_EngineStopped ==
  (Finished(try_pyttsx3) /\ engine # "none") => engine \in {"stopped", "stop_raised"}

(***************************************************************************)
(* C18: an empty or missing file in try_edge_tts.                          *)
(***************************************************************************)
\* the attempt's temp file is removed by this step
FileRemoved == rm_failed' = rm_failed /\ \A f \in fs' : f.name # temp_path

\* the steps after an attempt that produced nothing
FailedAttemptStep ==
  /\ pending.isNone
  /\ FileRemoved =>
       IF attempt < attempts
       THEN /\ pc' = "edge_sleep"
            /\ UNCHANGED <<outcomes, slept, attempt, calls>>
       ELSE /\ outcomes' = Append(outcomes, "Absent")
            /\ pc' \notin AdapterPcs(try_edge_tts)
            /\ UNCHANGED <<slept, calls>>

RECURSIVE SumSeq(_)
SumSeq(ns) == IF ns = <<>> THEN 0 ELSE Head(ns) + SumSeq(Tail(ns))

\* how adapter fn ended ("" while it has not)
OutcomeOf(fn) ==
  IF Finished(fn) THEN outcomes[CHOOSE i \in 1..Len(outcomes) : invoked[i] = fn] ELSE ""

\* some backend call of try_gtts raised
ChunkRaised == calls.gtts > Len(gtts_out)

HasGttsAudio == \E i \in 1..Len(ret.audio.segs) : ret.audio.segs[i].src = "gtts"

\* C19: when the backend call of any chunk raises, try_gtts returns None and no
\* audio of the chunks synthesized before it is returned; when try_gtts
\* succeeds, one backend call was made per chunk and the returned audio is the
\* outputs of those calls concatenated in chunk order, its length the sum of
\* their lengths.
C19_AllChunksOrNothing ==
  /\ (Finished(try_gtts) /\ ChunkRaised) =>
       /\ OutcomeOf(try_gtts) = "Absent"
       /\ ~HasGttsAudio
  /\ HasGttsAudio => OutcomeOf(try_gtts) = "Success"
  /\ OutcomeOf(try_gtts) = "Success" =>
       /\ ~ChunkRaised
       /\ calls.gtts = Len(chunks)
       /\ chunks = Chunked(text, max_chunk)
       /\ ret.kind = "return"
       /\ ret.provider_used = S_gtts
       /\ ret.audio = Bytes([i \in 1..Len(chunks) |->
                               [src |-> "gtts", part |-> i, len |-> gtts_out[i]]])
       /\ BytesLen(ret.audio) = SumSeq(gtts_out)

\* a text of two chunks synthesized by try_gtts, both calls yielding audio
C19_Witness ==
  /\ OutcomeOf(try_gtts) = "Success"
  /\ Len(chunks) = 2
  /\ gtts_out = <<MaxAudioLen, MaxAudioLen>>
  /\ BytesLen(ret.audio) = 2 * MaxAudioLen

(***************************************************************************)
(* C20: try_elevenlabs and the credential.                                 *)
(***************************************************************************)
\* C20: without a credential try_elevenlabs makes no backend call and returns
\* None at once, its name being in the attempt log all the same whenever it
\* was reached; with a credential it makes at most one backend call in a call
\* of synthesize.
C20_NoKeyNoCall ==
  /\ calls.elevenlabs <= 1
  /\ api_key = <<>> =>
       /\ calls.elevenlabs = 0
       /\ pc # "eleven_call"
       /\ Finished(try_elevenlabs) => OutcomeOf(try_elevenlabs) = "Absent"
  /\ \A i \in 1..Len(invoked) :
       invoked[i] = try_elevenlabs =>
         /\ Len(attempted_names) >= i
         /\ attempted_names[i] = S_elevenlabs
  /\ \A i \in 1..Len(invoked), j \in 1..Len(invoked) :
       (invoked[i] = try_elevenlabs /\ invoked[j] = try_elevenlabs) => i = j
  /\ pc = "eleven_call" => calls.elevenlabs = 0

\* the automatic order without a credential: the premium adapter was reached,
\* logged and skipped, and the call went on to the next adapter
C20_Witness ==
  /\ requested = S_auto
  /\ api_key = <<>>
  /\ Finished(try_elevenlabs)
  /\ attempted_names = <<S_edge_tts, S_elevenlabs, S_gtts>>
  /\ calls.elevenlabs = 0
  /\ pc = "gtts_import"

(***************************************************************************)
(* C21: the header of the placeholder WAV.                                 *)
(***************************************************************************)
\* the field of a packed header that starts at byte offset off
FieldAt(fields, off) ==
  fields[CHOOSE i \in 1..Len(fields) : PackedLen(SubSeq(fields, 1, i - 1)) = off]

\* what the header declares, read at the byte offsets of the WAV layout
HeaderDeclares ==
  LET h == wav_header
  IN /\ \A i \in 1..Len(h) : Packable(h[i])
     /\ PackedLen(h) = 44
     /\ FieldAt(h, 0).tag = "RIFF" /\ FieldAt(h, 8).tag = "WAVE"
     /\ FieldAt(h, 12).tag = "fmt " /\ FieldAt(h, 36).tag = "data"
     /\ FieldAt(h, 16) = PackInt("I", 16)
     /\ FieldAt(h, 20) = PackInt("H", 1)
     /\ FieldAt(h, 22) = PackInt("H", 1)
     /\ FieldAt(h, 24) = PackInt("I", 44100)
     /\ FieldAt(h, 28) = PackInt("I", 88200)
     /\ FieldAt(h, 32) = PackInt("H", 2)
     /\ FieldAt(h, 34) = PackInt("H", 16)
     /\ FieldAt(h, 4).code = "I"
     /\ FieldAt(h, 40).code = "I"

\* the RIFF size field (offset 4) and the data size field (offset 40)
riff_size_field == FieldAt(wav_header, 4).int

data_size_field == FieldAt(wav_header, 40).int

\* C21: in a returned beep the header is 44 bytes; read at the offsets of the
\* WAV layout it declares PCM, 1 channel, sample rate 44100, byte rate 88200,
\* block align 2 and 16 bits per sample; its data size field (offset 40) is
\* num_samples * 2 = 44100, the byte length of the samples that follow, and
\* its RIFF size field (offset 4) is 36 + num_samples * 2, the total length
\* minus 8.
C21_HeaderConsistent ==
  (ret.kind = "return" /\ ret.beep) =>
    /\ HeaderDeclares
    /\ ret.audio.segs[1].len = 44
    /\ data_size_field = num_samples * 2
    /\ data_size_field = 44100
    /\ data_size_field = ret.audio.segs[2].len
    /\ riff_size_field = 36 + num_samples * 2
    /\ riff_size_field = BytesLen(ret.audio) - 8

\* the beep returned after the single hinted adapter returned None
C21_Witness ==
  /\ ret.kind = "return"
  /\ ret.beep
  /\ requested = S_gtts
  /\ BytesLen(ret.audio) = 44 + 44100

(***************************************************************************)
(* C22: the language try_gtts hands to its backend.                        *)
(***************************************************************************)
\* C22: once try_gtts has built a backend object, the language it was given is
\* "en" when the (lowercased) request language is shorter than 2 characters
\* and the request language itself otherwise, codes longer than 2 characters
\* included.
C22_LangPassedThrough ==
  gtts_lang # <<>> => gtts_lang = (IF Len(lang.s) < 2 THEN S_en ELSE lang.s)

(***************************************************************************)
(* C23: termination and the number of backend calls.                       *)
(***************************************************************************)
CallsBounded ==
  /\ calls.edge_tts <= 3
  /\ calls.elevenlabs <= 1
  /\ calls.gtts <= (Len(text) + 399) \div 400
  /\ calls.pyttsx3 <= 1

\* C23: every step returning or raising, a call of synthesize ends (it returns
\* or raises), and at every moment it has made at most 3 streaming calls,
\* 1 premium call, ceil(len(text) / 400) chunked calls and 1 offline call.
C23_TerminatesBounded == []CallsBounded /\ <>(pc = "done")

\* a finished call that made every backend call the bounds allow
C23_Witness ==
  /\ pc = "done"
  /\ Len(text) = max_chunk + 5
  /\ calls = [edge_tts |-> 3, elevenlabs |-> 1, gtts |-> 2, pyttsx3 |-> 1]

(***************************************************************************)
(* C24: the placeholder flag, the provider and the attempt log.            *)
(***************************************************************************)
\* the names the adapters of the sequence are logged under
SequenceLog == [i \in 1..Len(providers_sequence) |-> LoggedName(providers_sequence[i])]

\* the returned provider is the last entry of the returned log and every
\* earlier entry is an adapter that returned None
LastOfLog ==
  /\ Len(ret.attempted) >= 1
  /\ ret.provider_used = ret.attempted[Len(ret.attempted)]
  /\ Len(outcomes) = Len(ret.attempted)
  /\ \A i \in 1..Len(ret.attempted) :
       /\ ret.attempted[i] = LoggedName(invoked[i])
       /\ i < Len(ret.attempted) => outcomes[i] = "Absent"

\* C24 as stated: in every returned outcome the beep flag is set exactly when
\* the provider is "beep", exactly when every adapter of the sequence was
\* entered and returned None (the log is then the whole sequence); otherwise
\* the provider is the last entry of the log and the earlier entries returned
\* None.
C24_EveryOutcome ==
  ret.kind = "return" =>
    /\ ret.beep <=> (ret.provider_used = S_beep)
    /\ ret.beep <=> Exhausted
    /\ ret.beep => ret.attempted = SequenceLog
    /\ ~ret.beep => LastOfLog

\* C24, amended: the same for every outcome returned for non-blank text; the
\* outcome returned for blank text has the flag false, no provider and an
\* empty log, no adapter having been entered.
C24_FlagIffExhausted ==
  ret.kind = "return" =>
    /\ ret.beep <=> (ret.provider_used = S_beep)
    /\ IF text = <<>>
       THEN /\ ~ret.beep
            /\ ret.provider_used = <<>>
            /\ ret.attempted = <<>>
            /\ invoked = <<>>
       ELSE /\ ret.beep <=> Exhausted
            /\ ret.beep => ret.attempted = SequenceLog
            /\ ~ret.beep =>
                 /\ LastOfLog
                 /\ outcomes[Len(outcomes)] = "Success"

\* the last adapter of the automatic order succeeded after three returned None
C24_Witness ==
  /\ ret.kind = "return"
  /\ ~ret.beep
  /\ requested = S_auto
  /\ Len(ret.attempted) = 4
  /\ ret.provider_used = S_pyttsx3

(***************************************************************************)
(* C25: the provider hint.                                                 *)
(***************************************************************************)
\* s is name in some letter case
MatchesName(s, name) ==
  /\ Len(s) = Len(name)
  /\ \A i \in 1..Len(s) :
       \/ s[i] = name[i]
       \/ \E k \in DOMAIN UpperChars : UpperChars[k] = s[i] /\ LowerChars[k] = name[i]

\* the specific providers the hint o names
NamedBy(o) == {name \in SpecificHints : ~o.isNone /\ MatchesName(o.s, name)}

\* C25: for non-blank text no hint is rejected: the first adapter of the
\* sequence is entered, and an exception, if any, comes after some adapter
\* ended; a hint that is one of edge, gtts, pyttsx3, elevenlabs in any letter
\* case gives the sequence of that one adapter, and every other hint (missing,
\* "auto", unknown) gives the four adapters in the automatic order.
C25_SelectionTotal ==
  (pc # "start" /\ text # <<>>) =>
    /\ Len(invoked) >= 1
    /\ invoked[1] = providers_sequence[1]
    /\ ret.kind = "raise" => Len(outcomes) >= 1
    /\ IF NamedBy(provider) = {}
       THEN providers_sequence = AutoFns
       ELSE \E name \in NamedBy(provider) : providers_sequence = <<HintAdapter(name)>>

\* the hint "Edge" ran the streaming adapter alone
C25_Witness ==
  /\ pc = "done"
  /\ provider = Some(<<"E", "d", "g", "e">>)
  /\ invoked = <<try_edge_tts>>

(***************************************************************************)
(* C26: two requests of /api/tts never write the same file path, for any   *)
(* interleaving, the same text and language in the same second included,   *)
(* so that no response's audio file is overwritten by another request.     *)
(***************************************************************************)
C26_UniquePaths ==
  \A i, j \in 1..Len(writes) :
    writes[i].by # writes[j].by => writes[i].path # writes[j].path

(***************************************************************************)
(* C27: a request whose synthesis yields no audio is answered with HTTP    *)
(* 400 and writes no file: this is the case exactly when the text is blank *)
(* after trimming, or when synthesize raised RuntimeError and the fallback *)
(* call with provider "edge" failed too; a request makes at most one       *)
(* fallback call, and makes it only after a RuntimeError of the first call.*)
(***************************************************************************)
Wrote(r) == \E i \in 1..Len(writes) : writes[i].by = r

NoAudioYielded(q) == Strip(q.text) = <<>> \/ q.raised = 2

C27_NoAudioNoFile ==
  \A r \in DOMAIN reqs :
    LET q == reqs[r]
    IN /\ Len(q.calls) <= 2
       /\ q.pc # "enter" => Len(q.calls) = 1 + (IF q.raised > 0 /\ q.pc # "raised" THEN 1 ELSE 0)
                            \/ (q.raised = 2 /\ Len(q.calls) = 2)
       /\ Len(q.calls) = 2 => q.calls[2] = S_edge /\ q.raised >= 1
       /\ q.pc # "done" => ~Wrote(r) /\ q.status = 0
       /\ q.pc = "done" =>
            /\ q.status = (IF NoAudioYielded(q) THEN 400 ELSE 200)
            /\ Wrote(r) <=> q.status = 200
            /\ Strip(q.text) = <<>> => Len(q.calls) = 1

C27_Witness ==
  /\ reqs # <<>>
  /\ reqs[1].pc = "done" /\ reqs[1].raised = 2 /\ reqs[1].status = 400
  /\ reqs[1].calls = <<S_gtts, S_edge>>
  /\ reqs[2].pc = "done" /\ reqs[2].text = <<" ">> /\ reqs[2].status = 400
  /\ writes = <<>>

====
